---- MODULE Spec2Model ----
(***************************************************************************)
(* Detector projection of a gravitational waveform (GWPE_JAX):             *)
(*   likelihood/detector_projection.py and                                 *)
(*   Notebooks/likelihood/ripple_projection.py.                            *)
(*                                                                         *)
(* Numbers.  Real numbers are exact rationals [n, d] in lowest terms,      *)
(* complex numbers are pairs [re, im] of rationals.  Angles (ra, dec, psi  *)
(* and the time argument that the code reduces mod 2*pi) are whole numbers *)
(* of quarter turns: the angle k stands for k*pi/2 radians, so that sin    *)
(* and cos are exact.  Lengths are metres, times seconds, frequencies Hz.  *)
(***************************************************************************)
EXTENDS Integers, Sequences, FiniteSets, TLC

VARIABLES
    fn,              \* the function the caller invokes
    args,            \* the caller's argument objects (by field name)
    pc,              \* position of the running call
    outcome,         \* what the call gave back: a return value or an exception
    prev_outcome,    \* outcome of the previous call with the same arguments
    calls,           \* number of calls started so far
    waveform,        \* driver local: {"plus": hp, "cross": hc}
    detector_params, \* driver local: the projection parameter dict
    data_dict,       \* driver local: the result mapping being filled
    it,              \* driver local: position of the loop over detector_presets
    wvf_params,      \* driver local: the parameter vector of the generator
    trace,           \* calls made by the driver to its collaborators, in order
    gen              \* the external waveform generator's value (hp, hc)

vars == <<fn, args, pc, outcome, prev_outcome, calls, waveform,
          detector_params, data_dict, it, wvf_params, trace, gen>>

----------------------------------------------------------------------------
(* Exact arithmetic *)

Abs(x) == IF x < 0 THEN -x ELSE x

RECURSIVE Gcd(_, _)
Gcd(a, b) == IF b = 0 THEN a ELSE Gcd(b, a % b)

Rat(n, d) ==
    LET g == Gcd(Abs(n), Abs(d))
        s == IF d < 0 THEN -1 ELSE 1
    IN  [n |-> s * (n \div g), d |-> s * (d \div g)]

R(k) == [n |-> k, d |-> 1]
RAdd(x, y) == Rat(x.n * y.d + y.n * x.d, x.d * y.d)
RNeg(x) == [n |-> -x.n, d |-> x.d]
RSub(x, y) == RAdd(x, RNeg(y))
RMul(x, y) == Rat(x.n * y.n, x.d * y.d)
RDiv(x, y) == Rat(x.n * y.d, x.d * y.n)
RSign(x) == IF x.n > 0 THEN 1 ELSE IF x.n < 0 THEN -1 ELSE 0

C(re, im) == [re |-> re, im |-> im]
CZero == C(R(0), R(0))
CAdd(x, y) == C(RAdd(x.re, y.re), RAdd(x.im, y.im))
CMul(x, y) == C(RSub(RMul(x.re, y.re), RMul(x.im, y.im)),
                RAdd(RMul(x.re, y.im), RMul(x.im, y.re)))
CScale(x, r) == C(RMul(x.re, r), RMul(x.im, r))

\* jnp.sin, jnp.cos, jnp.mod(., 2*pi) and pi/2 on quarter-turn angles
jnp_sin(a) == R(<<0, 1, 0, -1>>[(a % 4) + 1])
jnp_cos(a) == R(<<1, 0, -1, 0>>[(a % 4) + 1])
TwoPi == 4
HalfPi == 1
jnp_mod(a, m) == a % m

\* jnp.exp(-1j * 2 * jnp.pi * x) for x a rational number of turns; exact on
\* the quarter turns, which is where the inputs of this model keep x
exp_m1j_2pi(x) ==
    LET q == ((4 * x.n) \div x.d) % 4
    IN  <<C(R(1), R(0)), C(R(0), R(-1)), C(R(-1), R(0)), C(R(0), R(1))>>[q + 1]

\* 3-vectors and 3x3 matrices
Vec(x, y, z) == <<x, y, z>>
VScale(r, a) == [i \in 1..3 |-> RMul(r, a[i])]
VAdd(a, b) == [i \in 1..3 |-> RAdd(a[i], b[i])]
VSub(a, b) == [i \in 1..3 |-> RSub(a[i], b[i])]
VNeg(a) == [i \in 1..3 |-> RNeg(a[i])]
jnp_dot(a, b) == RAdd(RAdd(RMul(a[1], b[1]), RMul(a[2], b[2])), RMul(a[3], b[3]))
jnp_cross(a, b) ==
    Vec(RSub(RMul(a[2], b[3]), RMul(a[3], b[2])),
        RSub(RMul(a[3], b[1]), RMul(a[1], b[3])),
        RSub(RMul(a[1], b[2]), RMul(a[2], b[1])))
einsum_outer(a, b) == [i \in 1..3 |-> [j \in 1..3 |-> RMul(a[i], b[j])]]
MAdd(A, B) == [i \in 1..3 |-> [j \in 1..3 |-> RAdd(A[i][j], B[i][j])]]
MSub(A, B) == [i \in 1..3 |-> [j \in 1..3 |-> RSub(A[i][j], B[i][j])]]
MScale(r, A) == [i \in 1..3 |-> [j \in 1..3 |-> RMul(r, A[i][j])]]
einsum_contract(A, B) ==
    LET row(i) == RAdd(RAdd(RMul(A[i][1], B[i][1]), RMul(A[i][2], B[i][2])),
                       RMul(A[i][3], B[i][3]))
    IN  RAdd(RAdd(row(1), row(2)), row(3))
ZeroMatrix == [i \in 1..3 |-> [j \in 1..3 |-> R(0)]]
Origin == Vec(R(0), R(0), R(0))

----------------------------------------------------------------------------
(* Strings are sequences of characters; str.lower() maps each character *)

UpperCase == <<"A","B","C","D","E","F","G","H","I","J","K","L","M",
               "N","O","P","Q","R","S","T","U","V","W","X","Y","Z">>
LowerCase == <<"a","b","c","d","e","f","g","h","i","j","k","l","m",
               "n","o","p","q","r","s","t","u","v","w","x","y","z">>
lower_char(c) ==
    IF \E k \in 1..26 : UpperCase[k] = c
    THEN LowerCase[CHOOSE k \in 1..26 : UpperCase[k] = c]
    ELSE c
lower(s) == [k \in 1..Len(s) |-> lower_char(s[k])]

plus == <<"p","l","u","s">>
cross == <<"c","r","o","s","s">>
breathing == <<"b","r","e","a","t","h","i","n","g">>
longitudinal == <<"l","o","n","g","i","t","u","d","i","n","a","l">>
mode_x == <<"x">>
mode_y == <<"y">>

----------------------------------------------------------------------------
(* Outcomes of a call *)

NoValue == <<>>
Return(v) == [kind |-> "return", exc |-> "", key |-> "", msg |-> <<>>, value |-> v]
KeyError(k) == [kind |-> "raise", exc |-> "KeyError", key |-> k, msg |-> <<>>,
                value |-> NoValue]
ValueError(m) == [kind |-> "raise", exc |-> "ValueError", key |-> "", msg |-> m,
                  value |-> NoValue]
NotCalled == [kind |-> "none", exc |-> "", key |-> "", msg |-> <<>>, value |-> NoValue]
Raised(o) == o.kind = "raise"
Unmatched == [kind |-> "unmatched", exc |-> "", key |-> "", msg |-> <<>>,
              value |-> NoValue]

\* an exception ends the evaluation; otherwise it goes on with the value
Bind(o, F(_)) == IF o.kind = "return" THEN F(o.value) ELSE o
\* a branch that fell through goes on with the code after it
OrElse(o, F(_)) == IF o.kind = "unmatched" THEN F(o) ELSE o

----------------------------------------------------------------------------
(* likelihood/detector_projection.py *)

speed_of_light == 299792458

\* the two outer products added
detector_tensor_sum(arm1, arm2) ==
    MScale(Rat(1, 2), MAdd(einsum_outer(arm1, arm1), einsum_outer(arm2, arm2)))

detector_tensor(arm1, arm2) ==
    MScale(Rat(1, 2), MSub(einsum_outer(arm1, arm1), einsum_outer(arm2, arm2)))

\* lines 61-68: the polarization basis vectors m and n
polarization_basis(ra, dec, time, psi) ==
    LET gmst == jnp_mod(time, TwoPi)
        phi == ra - gmst
        theta == HalfPi - dec
        u == Vec(RMul(jnp_cos(phi), jnp_cos(theta)),
                 RMul(jnp_cos(theta), jnp_sin(phi)),
                 RNeg(jnp_sin(theta)))
        v == Vec(RNeg(jnp_sin(phi)), jnp_cos(phi), R(0))
        m == VSub(VScale(jnp_sin(psi), VNeg(u)), VScale(jnp_cos(psi), v))
        n == VAdd(VScale(jnp_cos(psi), VNeg(u)), VScale(jnp_sin(psi), v))
    IN  [m |-> m, n |-> n]

\* the dispatch without .lower()
mode_is_exact(mode, name) == mode = name

\* the test `mode.lower() == name` of the dispatch
mode_is(mode, name) == lower(mode) = name

\* "{} not a polarization mode!".format(mode)
invalid_mode_message(mode) ==
    mode \o <<" ","n","o","t"," ","a"," ","p","o","l","a","r","i","z","a","t",
              "i","o","n"," ","m","o","d","e","!">>

\* lines 70-75: the first stage of the dispatch; Unmatched when it falls through
dispatch_primary(m, n, mode) ==
    IF mode_is(mode, plus)
      THEN Return(MSub(einsum_outer(m, m), einsum_outer(n, n)))
    ELSE IF mode_is(mode, cross)
      THEN Return(MAdd(einsum_outer(m, n), einsum_outer(n, m)))
    ELSE IF mode_is(mode, breathing)
      THEN Return(MAdd(einsum_outer(m, m), einsum_outer(n, n)))
    ELSE Unmatched

\* lines 79-86: the second stage, with omega = cross(m, n)
dispatch_omega(m, n, omega, mode) ==
    IF mode_is(mode, longitudinal)
      THEN Return(einsum_outer(omega, omega))
    ELSE IF mode_is(mode, mode_x)
      THEN Return(MAdd(einsum_outer(m, omega), einsum_outer(omega, m)))
    ELSE IF mode_is(mode, mode_y)
      THEN Return(MAdd(einsum_outer(n, omega), einsum_outer(omega, n)))
    ELSE ValueError(invalid_mode_message(mode))

dispatch_mode(b, mode) ==
    OrElse(dispatch_primary(b.m, b.n, mode),
           LAMBDA none : dispatch_omega(b.m, b.n, jnp_cross(b.m, b.n), mode))

get_polarization_tensor(ra, dec, time, psi, mode) ==
    dispatch_mode(polarization_basis(ra, dec, time, psi), mode)

antenna_response(det_tensor, ra, dec, time, psi, mode) ==
    Bind(get_polarization_tensor(ra, dec, time, psi, mode),
         LAMBDA polarization_tensor :
             Return(einsum_contract(det_tensor, polarization_tensor)))

\* the difference taken the other way round
delta_d_reversed(detector1, detector2) == VSub(detector1, detector2)

\* the first position forgotten
delta_d_second_only(detector1, detector2) == detector2

\* line 120
delta_d(detector1, detector2) == VSub(detector2, detector1)

\* line 119
direction(theta, phi) ==
    Vec(RMul(jnp_sin(theta), jnp_cos(phi)),
        RMul(jnp_sin(theta), jnp_sin(phi)),
        jnp_cos(theta))

time_delay_geocentric(detector1, detector2, ra, dec, time) ==
    RDiv(jnp_dot(direction(HalfPi - dec, ra - jnp_mod(time, TwoPi)),
                 delta_d(detector1, detector2)),
         R(speed_of_light))

\* d.get(k): None for an absent key, which the arithmetic then rejects
getitem_get(d, k) ==
    IF k \in DOMAIN d THEN Return(d[k])
    ELSE [kind |-> "raise", exc |-> "TypeError", key |-> "", msg |-> <<>>,
          value |-> NoValue]

\* d[k] of a dict
getitem(d, k) == IF k \in DOMAIN d THEN Return(d[k]) ELSE KeyError(k)

\* the antenna response added to the amplitudes
ArrScale_added(h, r) == [i \in 1..Len(h) |-> C(RAdd(h[i].re, r), h[i].im)]

\* array * scalar and array + array, elementwise
ArrScale(h, r) == [i \in 1..Len(h) |-> CScale(h[i], r)]
ArrAdd(a, b) == [i \in 1..Len(a) |-> CAdd(a[i], b[i])]

\* lines 167-175: the loop over waveform_polarizations.keys(); the values of
\* `signal` in insertion order, or the first exception
RECURSIVE project_modes(_, _, _, _)
project_modes(items, k, parameters, det_tensor) ==
    IF k > Len(items) THEN Return(<<>>)
    ELSE
      Bind(getitem(parameters, "ra"), LAMBDA ra :
      Bind(getitem(parameters, "dec"), LAMBDA dec :
      Bind(getitem(parameters, "t_c"), LAMBDA t_c :
      Bind(getitem(parameters, "psi"), LAMBDA psi :
      Bind(antenna_response(det_tensor, ra, dec, t_c, psi, items[k].mode),
           LAMBDA det_response :
      Bind(project_modes(items, k + 1, parameters, det_tensor), LAMBDA rest :
      Return(<<ArrScale(items[k].h, det_response)>> \o rest)))))))

\* line 176: sum(signal.values()) starts from the integer 0, a scalar
py_add(acc, h) ==
    [scalar |-> FALSE,
     v |-> [i \in 1..Len(h) |-> CAdd(IF acc.scalar THEN acc.v ELSE acc.v[i], h[i])]]
RECURSIVE py_sum_from(_, _)
py_sum_from(acc, values) ==
    IF values = <<>> THEN acc
    ELSE py_sum_from(py_add(acc, Head(values)), Tail(values))
py_sum(values) == py_sum_from([scalar |-> TRUE, v |-> CZero], values)

\* start_time added
dt_of_added(geocent_time, start_time, time_shift) ==
    RAdd(RAdd(geocent_time, start_time), time_shift)

\* lines 180-181
dt_of(geocent_time, start_time, time_shift) ==
    RAdd(RSub(geocent_time, start_time), time_shift)

\* line 183: signal_ifo * jnp.exp(-1j * 2 * jnp.pi * dt * frequency)
apply_time_shift(signal_ifo, dt, frequency) ==
    [i \in 1..Len(frequency) |->
        CMul(IF signal_ifo.scalar THEN signal_ifo.v ELSE signal_ifo.v[i],
             exp_m1j_2pi(RMul(dt, frequency[i])))]

get_detector_response(frequency, waveform_polarizations, parameters, det_tensor, detector_vertex) ==
    Bind(project_modes(waveform_polarizations, 1, parameters, det_tensor),
         LAMBDA signal :
    Bind(getitem(parameters, "ra"), LAMBDA ra :
    Bind(getitem(parameters, "dec"), LAMBDA dec :
    Bind(getitem(parameters, "t_c"), LAMBDA t_c :
    Bind(getitem(parameters, "geocent_time"), LAMBDA geocent_time :
    Bind(getitem(parameters, "start_time"), LAMBDA start_time :
    Return(apply_time_shift(
               py_sum(signal),
               dt_of(geocent_time, start_time,
                     time_delay_geocentric(detector_vertex, Origin, ra, dec, t_c)),
               frequency))))))))

----------------------------------------------------------------------------
(* Notebooks/likelihood/ripple_projection.py: get_detector_response_ripple *)

wvf_keys == <<"Mc", "eta", "chi1", "chi2", "D", "t_c", "phic", "inclination", "psi">>
projection_keys == <<"ra", "dec", "t_c", "psi">>

EmptyDict == <<>>

\* [d[k] for k in keys]: the values in order, or the KeyError of the first
\* key that is absent
RECURSIVE getitems(_, _)
getitems(d, keys) ==
    IF keys = <<>> THEN Return(<<>>)
    ELSE Bind(getitem(d, Head(keys)), LAMBDA v :
         Bind(getitems(d, Tail(keys)), LAMBDA rest :
         Return(<<v>> \o rest)))
SetItem(d, k, v) == [x \in DOMAIN d \cup {k} |-> IF x = k THEN v ELSE d[x]]

\* ripple's gen_IMRPhenomD_polar(f_list, wvf_params): an external function,
\* whose value at the arguments of the run is gen
gen_IMRPhenomD_polar(f, theta) == gen

GenEvent == [ev |-> "gen_IMRPhenomD_polar", key |-> ""]
ResponseEvent(key) == [ev |-> "get_detector_response", key |-> key]

Fail(o) ==
    /\ outcome' = o
    /\ pc' = "raised"

\* line 8: wvf_params = jnp.array([params_dict[key] for key in wvf_keys])
Ripple_L8 ==
    /\ fn = "get_detector_response_ripple" /\ pc = "L8"
    /\ LET r == getitems(args.params_dict, wvf_keys)
       IN  IF Raised(r)
             THEN Fail(r) /\ UNCHANGED wvf_params
             ELSE /\ wvf_params' = r.value
                  /\ pc' = "L9"
                  /\ UNCHANGED outcome
    /\ UNCHANGED <<fn, args, prev_outcome, calls, waveform, detector_params,
                   data_dict, it, trace, gen>>

\* lines 9-10: hp, hc = gen_IMRPhenomD_polar(...); waveform = {"plus": hp, "cross": hc}
Ripple_L9 ==
    /\ fn = "get_detector_response_ripple" /\ pc = "L9"
    /\ LET r == gen_IMRPhenomD_polar(args.f_list, wvf_params)
       IN  waveform' = <<[mode |-> plus, h |-> r.hp], [mode |-> cross, h |-> r.hc]>>
    /\ trace' = Append(trace, GenEvent)
    /\ pc' = "L13"
    /\ UNCHANGED <<fn, args, outcome, prev_outcome, calls, detector_params,
                   data_dict, it, wvf_params, gen>>

\* lines 12-13: detector_params = {key: params_dict[key] for key in projection_keys}
Ripple_L13 ==
    /\ fn = "get_detector_response_ripple" /\ pc = "L13"
    /\ LET r == getitems(args.params_dict, projection_keys)
       IN  IF Raised(r)
             THEN Fail(r) /\ UNCHANGED detector_params
             ELSE /\ detector_params' =
                         [k \in {projection_keys[i] : i \in 1..Len(projection_keys)}
                             |-> r.value[CHOOSE i \in 1..Len(projection_keys) :
                                            projection_keys[i] = k]]
                  /\ pc' = "L14"
                  /\ UNCHANGED outcome
    /\ UNCHANGED <<fn, args, prev_outcome, calls, waveform, data_dict, it,
                   wvf_params, trace, gen>>

\* geocent_time taken to be the coalescence time
Ripple_L14_from_t_c ==
    /\ fn = "get_detector_response_ripple" /\ pc = "L14"
    /\ detector_params' = SetItem(detector_params, "geocent_time",
                                  R(args.params_dict["t_c"]))
    /\ pc' = "L15"
    /\ UNCHANGED <<fn, args, outcome, prev_outcome, calls, waveform, data_dict,
                   it, wvf_params, trace, gen>>

\* the projection parameters written into the caller's dict
Ripple_L14_aliased ==
    /\ fn = "get_detector_response_ripple" /\ pc = "L14"
    /\ detector_params' = SetItem(detector_params, "geocent_time", R(0))
    /\ args' = [args EXCEPT !.params_dict = SetItem(@, "geocent_time", R(0))]
    /\ pc' = "L15"
    /\ UNCHANGED <<fn, outcome, prev_outcome, calls, waveform, data_dict,
                   it, wvf_params, trace, gen>>

\* line 14: detector_params["geocent_time"] = 0.0
Ripple_L14 ==
    /\ fn = "get_detector_response_ripple" /\ pc = "L14"
    /\ detector_params' = SetItem(detector_params, "geocent_time", R(0))
    /\ pc' = "L15"
    /\ UNCHANGED <<fn, args, outcome, prev_outcome, calls, waveform, data_dict,
                   it, wvf_params, trace, gen>>

\* line 15: detector_params["start_time"] = 0.0
Ripple_L15 ==
    /\ fn = "get_detector_response_ripple" /\ pc = "L15"
    /\ detector_params' = SetItem(detector_params, "start_time", R(0))
    /\ pc' = "L17"
    /\ UNCHANGED <<fn, args, outcome, prev_outcome, calls, waveform, data_dict,
                   it, wvf_params, trace, gen>>

\* lines 17-18: data_dict = {}; the loop over detector_presets.keys() begins
Ripple_L17 ==
    /\ fn = "get_detector_response_ripple" /\ pc = "L17"
    /\ data_dict' = EmptyDict
    /\ it' = 1
    /\ pc' = "L18"
    /\ UNCHANGED <<fn, args, outcome, prev_outcome, calls, waveform,
                   detector_params, wvf_params, trace, gen>>

\* the loop with the generator called again for each detector
Ripple_L18_regenerating ==
    /\ fn = "get_detector_response_ripple" /\ pc = "L18"
    /\ it <= Len(args.detector_presets)
    /\ LET preset == args.detector_presets[it]
           r == get_detector_response(args.f_list, waveform, detector_params,
                                      preset.detector, preset.detector_vertex)
       IN  /\ trace' = Append(Append(trace, GenEvent), ResponseEvent(preset.key))
           /\ IF Raised(r)
                THEN Fail(r) /\ UNCHANGED <<data_dict, it>>
                ELSE /\ data_dict' = SetItem(data_dict, preset.key, r.value)
                     /\ it' = it + 1
                     /\ UNCHANGED <<pc, outcome>>
    /\ UNCHANGED <<fn, args, prev_outcome, calls, waveform, detector_params,
                   wvf_params, gen>>

\* lines 18-22: one iteration of the loop
Ripple_L18 ==
    /\ fn = "get_detector_response_ripple" /\ pc = "L18"
    /\ it <= Len(args.detector_presets)
    /\ LET preset == args.detector_presets[it]
           r == get_detector_response(args.f_list, waveform, detector_params,
                                      preset.detector, preset.detector_vertex)
       IN  /\ trace' = Append(trace, ResponseEvent(preset.key))
           /\ IF Raised(r)
                THEN Fail(r) /\ UNCHANGED <<data_dict, it>>
                ELSE /\ data_dict' = SetItem(data_dict, preset.key, r.value)
                     /\ it' = it + 1
                     /\ UNCHANGED <<pc, outcome>>
    /\ UNCHANGED <<fn, args, prev_outcome, calls, waveform, detector_params,
                   wvf_params, gen>>

\* line 23: return data_dict
Ripple_L23 ==
    /\ fn = "get_detector_response_ripple" /\ pc = "L18"
    /\ it > Len(args.detector_presets)
    /\ outcome' = Return(data_dict)
    /\ pc' = "returned"
    /\ UNCHANGED <<fn, args, prev_outcome, calls, waveform, detector_params,
                   data_dict, it, wvf_params, trace, gen>>

----------------------------------------------------------------------------
(* Direct calls of the functions of detector_projection.py *)

Finish(o) ==
    /\ outcome' = o
    /\ pc' = IF Raised(o) THEN "raised" ELSE "returned"
    /\ UNCHANGED <<fn, args, prev_outcome, calls, waveform, detector_params,
                   data_dict, it, wvf_params, trace, gen>>

Call_detector_tensor ==
    /\ fn = "detector_tensor" /\ pc = "call"
    /\ Finish(Return(detector_tensor(args.arm1, args.arm2)))

Call_get_polarization_tensor ==
    /\ fn = "get_polarization_tensor" /\ pc = "call"
    /\ Finish(get_polarization_tensor(args.ra, args.dec, args.time, args.psi,
                                      args.mode))

Call_antenna_response ==
    /\ fn = "antenna_response" /\ pc = "call"
    /\ Finish(antenna_response(args.detector_tensor, args.ra, args.dec,
                               args.time, args.psi, args.mode))

Call_time_delay_geocentric ==
    /\ fn = "time_delay_geocentric" /\ pc = "call"
    /\ Finish(Return(time_delay_geocentric(args.detector1, args.detector2,
                                           args.ra, args.dec, args.time)))

Call_get_detector_response ==
    /\ fn = "get_detector_response" /\ pc = "call"
    /\ Finish(get_detector_response(args.frequency, args.waveform_polarizations,
                                    args.parameters, args.detector_tensor,
                                    args.detector_vertex))

----------------------------------------------------------------------------
(* The caller: inputs, and a second call with the same argument objects *)

MaxDen == 3         \* unit vectors have coordinates n/d with d <= MaxDen
MaxTime == 4        \* times (as angles) range over 0..MaxTime quarter turns
MaxLen == 2         \* longest frequency grid
MaxDetectors == 2   \* most detector presets in one call
MaxCalls == 2       \* calls made with the same arguments

RaSet == 0..3
DecSet == -1..1
PsiSet == 0..1
TimeSet == 0..MaxTime

Coords == {Rat(n, d) : n \in -MaxDen..MaxDen, d \in 1..MaxDen}
UnitVectors ==
    {v \in Coords \X Coords \X Coords : jnp_dot(v, v) = R(1)}

upper_char(c) ==
    IF \E k \in 1..26 : LowerCase[k] = c
    THEN UpperCase[CHOOSE k \in 1..26 : LowerCase[k] = c]
    ELSE c
upper(s) == [k \in 1..Len(s) |-> upper_char(s[k])]
capitalize(s) == [k \in 1..Len(s) |-> IF k = 1 THEN upper_char(s[k]) ELSE s[k]]

RecognizedModes == {plus, cross, breathing, longitudinal, mode_x, mode_y}
scalar == <<"s","c","a","l","a","r">>
OtherModes ==
    {scalar, upper(scalar), <<>>, <<"p","l","u">>, <<"p","l","u","s","s">>,
     <<"p","l","u","s"," ">>, <<"+">>, <<"x","y">>}
ModeStrings ==
    RecognizedModes \cup {upper(s) : s \in RecognizedModes}
        \cup {capitalize(s) : s \in RecognizedModes}
        \cup OtherModes

half_light_second == speed_of_light \div 2
P(x, y, z) == Vec(R(x * half_light_second), R(y * half_light_second),
                  R(z * half_light_second))
Positions ==
    {Origin, P(1, 0, 0), P(0, 2, 0), P(0, 0, -1), P(1, -2, 0), P(-1, 1, 2),
     P(2, 1, -1)}

e_x == Vec(R(1), R(0), R(0))
e_y == Vec(R(0), R(1), R(0))
e_z == Vec(R(0), R(0), R(1))
Tensors ==
    {ZeroMatrix, detector_tensor(e_x, e_y),
     detector_tensor(Vec(Rat(1, 3), Rat(2, 3), Rat(2, 3)), e_z)}

FreqGrid(n) == [i \in 1..n |-> Rat(i, 2)]
Frequencies == {FreqGrid(n) : n \in 1..MaxLen}

\* amplitude of the j-th mode at the i-th frequency, at scale p
amplitude(j, i, p) == C(R(p * i), R(p * j))
WaveformModes ==
    {<<>>, <<plus>>, <<plus, cross>>, <<capitalize(cross), upper(plus)>>,
     <<breathing, longitudinal, mode_x, mode_y>>, <<scalar>>, <<plus, scalar>>}
Waveform(modes, n, p) ==
    [j \in 1..Len(modes) |->
        [mode |-> modes[j], h |-> [i \in 1..n |-> amplitude(j, i, p)]]]

AmpScales == {0, 1}

\* d without the keys of K
Without(d, K) == [k \in DOMAIN d \ K |-> d[k]]

ResponseParams ==
    [ra : {1}, dec : {0}, t_c : {1}, psi : PsiSet,
     geocent_time : {R(0), Rat(1, 2)}, start_time : {R(0), Rat(1, 2)}]
BaseResponseParams ==
    [ra |-> 1, dec |-> 0, t_c |-> 1, psi |-> 0,
     geocent_time |-> Rat(1, 2), start_time |-> R(0)]
\* one or two keys absent
ResponseParamsDropped ==
    {Without(BaseResponseParams, {a, b}) : a, b \in DOMAIN BaseResponseParams}

RippleParams ==
    [Mc : {R(30)}, eta : {Rat(1, 4)}, chi1 : {R(0)}, chi2 : {Rat(1, 2)},
     D : {R(400)}, t_c : 0..1, phic : {R(0)}, inclination : {R(1)},
     psi : {1}, ra : 0..1, dec : {0}]
BaseRippleParams ==
    [Mc |-> R(30), eta |-> Rat(1, 4), chi1 |-> R(0), chi2 |-> Rat(1, 2),
     D |-> R(400), t_c |-> 1, phic |-> R(0), inclination |-> R(1),
     psi |-> 1, ra |-> 1, dec |-> 0]
WithTimes(d) ==
    SetItem(SetItem(d, "geocent_time", Rat(1, 2)), "start_time", R(1))
\* one key absent, or one of the waveform keys and one of the sky position
RippleParamsDropped ==
    {Without(BaseRippleParams, {a}) : a \in DOMAIN BaseRippleParams}
        \cup {Without(BaseRippleParams, {"psi", "ra"}),
              Without(BaseRippleParams, {"Mc", "dec"})}

PresetTable ==
    [H1 |-> [detector |-> detector_tensor(e_x, e_y),
             detector_vertex |-> P(1, 0, 0)],
     L1 |-> [detector |-> detector_tensor(Vec(Rat(1, 3), Rat(2, 3), Rat(2, 3)), e_z),
             detector_vertex |-> P(0, 2, 0)],
     Z0 |-> [detector |-> ZeroMatrix, detector_vertex |-> Origin]]
Preset(name) ==
    [key |-> name, detector |-> PresetTable[name].detector,
     detector_vertex |-> PresetTable[name].detector_vertex]
PresetLists ==
    UNION {{[i \in 1..n |-> Preset(names[i])] :
               names \in {s \in [1..n -> DOMAIN PresetTable] :
                              \A a, b \in 1..n : a # b => s[a] # s[b]}} :
           n \in 0..MaxDetectors}

InitCall(f, a, start) ==
    /\ fn = f
    /\ args = a
    /\ pc = start
    /\ outcome = NotCalled
    /\ prev_outcome = NotCalled
    /\ calls = 1
    /\ waveform = <<>>
    /\ detector_params = EmptyDict
    /\ data_dict = EmptyDict
    /\ it = 0
    /\ wvf_params = <<>>
    /\ trace = <<>>

Init ==
    \/ /\ gen = [hp |-> <<>>, hc |-> <<>>]
       /\ \/ \E a \in [arm1 : UnitVectors, arm2 : UnitVectors] :
                InitCall("detector_tensor", a, "call")
          \/ \E a \in [ra : RaSet, dec : DecSet, time : TimeSet, psi : PsiSet,
                       mode : ModeStrings] :
                InitCall("get_polarization_tensor", a, "call")
          \/ \E a \in [detector_tensor : Tensors \ {ZeroMatrix}, ra : RaSet,
                       dec : {0}, time : {0}, psi : PsiSet, mode : ModeStrings] :
                InitCall("antenna_response", a, "call")
          \/ \E a \in [detector1 : Positions, detector2 : Positions, ra : RaSet,
                       dec : DecSet, time : TimeSet] :
                InitCall("time_delay_geocentric", a, "call")
          \/ \E f \in Frequencies, modes \in WaveformModes, p \in AmpScales,
                prm \in ResponseParams, t \in Tensors,
                v \in {Origin, P(1, 2, 0)} :
                InitCall("get_detector_response",
                         [frequency |-> f,
                          waveform_polarizations |-> Waveform(modes, Len(f), p),
                          parameters |-> prm,
                          detector_tensor |-> t,
                          detector_vertex |-> v], "call")
          \/ \E f \in Frequencies, modes \in WaveformModes, p \in AmpScales,
                prm \in ResponseParamsDropped :
                InitCall("get_detector_response",
                         [frequency |-> f,
                          waveform_polarizations |-> Waveform(modes, Len(f), p),
                          parameters |-> prm,
                          detector_tensor |-> detector_tensor(e_x, e_y),
                          detector_vertex |-> P(1, 2, 0)], "call")
    \/ \E f \in Frequencies, p \in AmpScales, presets \in PresetLists,
          prm \in RippleParams \cup {WithTimes(d) : d \in RippleParams} :
          /\ gen = [hp |-> [i \in 1..Len(f) |-> amplitude(1, i, p)],
                    hc |-> [i \in 1..Len(f) |-> amplitude(2, i, p)]]
          /\ InitCall("get_detector_response_ripple",
                      [f_list |-> f, params_dict |-> prm,
                       detector_presets |-> presets], "L8")
    \/ \E f \in Frequencies, prm \in RippleParamsDropped,
          presets \in {ps \in PresetLists : Len(ps) <= 1} :
          /\ gen = [hp |-> [i \in 1..Len(f) |-> amplitude(1, i, 1)],
                    hc |-> [i \in 1..Len(f) |-> amplitude(2, i, 1)]]
          /\ InitCall("get_detector_response_ripple",
                      [f_list |-> f, params_dict |-> prm,
                       detector_presets |-> presets], "L8")

\* the caller calls again with the same argument objects; the new call starts
\* with fresh locals
CallAgain ==
    /\ fn \in {"get_detector_response", "get_detector_response_ripple"}
    /\ pc \in {"returned", "raised"}
    /\ calls < MaxCalls
    /\ calls' = calls + 1
    /\ prev_outcome' = outcome
    /\ outcome' = NotCalled
    /\ pc' = IF fn = "get_detector_response_ripple" THEN "L8" ELSE "call"
    /\ waveform' = <<>>
    /\ detector_params' = EmptyDict
    /\ data_dict' = EmptyDict
    /\ it' = 0
    /\ wvf_params' = <<>>
    /\ trace' = <<>>
    /\ UNCHANGED <<fn, args, gen>>

Next ==
    \/ Call_detector_tensor
    \/ Call_get_polarization_tensor
    \/ Call_antenna_response
    \/ Call_time_delay_geocentric
    \/ Call_get_detector_response
    \/ Ripple_L8
    \/ Ripple_L9
    \/ Ripple_L13
    \/ Ripple_L14
    \/ Ripple_L15
    \/ Ripple_L17
    \/ Ripple_L18
    \/ Ripple_L23
    \/ CallAgain

Spec == Init /\ [][Next]_vars

----------------------------------------------------------------------------
(* Properties *)

Finished == pc \in {"returned", "raised"}

\* s is name with each letter in either case
CaseVariant(s, name) ==
    /\ Len(s) = Len(name)
    /\ \A k \in 1..Len(name) : s[k] = name[k] \/ s[k] = upper_char(name[k])
IsRecognized(s) == \E name \in RecognizedModes : CaseVariant(s, name)

NotAModeText ==
    <<" ","n","o","t"," ","a"," ","p","o","l","a","r","i","z","a","t","i","o",
      "n"," ","m","o","d","e","!">>
ReportsMode(msg, mode) ==
    /\ Len(msg) = Len(mode) + Len(NotAModeText)
    /\ SubSeq(msg, 1, Len(mode)) = mode
    /\ SubSeq(msg, Len(mode) + 1, Len(msg)) = NotAModeText

\* C1: get_polarization_tensor and antenna_response return for each of plus,
\* cross, breathing, longitudinal, x, y in any letter case, and for every other
\* mode string raise the invalid-mode ValueError whose message holds the mode
\* string as it was passed
C1_ModeDispatch ==
    (fn \in {"get_polarization_tensor", "antenna_response"} /\ Finished) =>
        IF IsRecognized(args.mode)
          THEN outcome.kind = "return"
          ELSE /\ outcome.kind = "raise"
               /\ outcome.exc = "ValueError"
               /\ ReportsMode(outcome.msg, args.mode)

C1_Witness ==
    /\ fn = "get_polarization_tensor"
    /\ pc = "returned"
    /\ args.mode = upper(plus)

\* C2: in a call of get_detector_response_ripple the waveform generator is
\* invoked before any per-detector response is computed, and a call that
\* returns has invoked it exactly once, whatever the number of presets
C2_GeneratorOnce ==
    fn = "get_detector_response_ripple" =>
        /\ \A i \in 1..Len(trace) :
               trace[i].ev = "get_detector_response" =>
                   \E j \in 1..(i - 1) : trace[j].ev = "gen_IMRPhenomD_polar"
        /\ pc = "returned" =>
               Cardinality({i \in 1..Len(trace) :
                               trace[i].ev = "gen_IMRPhenomD_polar"}) = 1

C2_Witness ==
    /\ fn = "get_detector_response_ripple"
    /\ pc = "returned"
    /\ Len(args.detector_presets) >= 2
    /\ Len(trace) = 1 + Len(args.detector_presets)

ExpectedParams(d) ==
    [ra |-> d["ra"], dec |-> d["dec"], t_c |-> d["t_c"], psi |-> d["psi"],
     geocent_time |-> R(0), start_time |-> R(0)]
ExpectedWaveform == <<[mode |-> plus, h |-> gen.hp], [mode |-> cross, h |-> gen.hc]>>

\* C3: get_detector_response_ripple returns a mapping whose keys are those of
\* detector_presets, each value being get_detector_response of the frequency
\* grid, the generator's {plus, cross}, the preset's tensor and vertex, and
\* {ra, dec, t_c, psi of params_dict, geocent_time 0, start_time 0}
C3_ResultMapping ==
    (fn = "get_detector_response_ripple" /\ pc = "returned") =>
        /\ DOMAIN outcome.value =
               {args.detector_presets[i].key : i \in 1..Len(args.detector_presets)}
        /\ \A i \in 1..Len(args.detector_presets) :
               LET preset == args.detector_presets[i]
                   expected == get_detector_response(args.f_list, ExpectedWaveform,
                                   ExpectedParams(args.params_dict),
                                   preset.detector, preset.detector_vertex)
               IN  /\ expected.kind = "return"
                   /\ outcome.value[preset.key] = expected.value

C3_Witness ==
    /\ fn = "get_detector_response_ripple"
    /\ pc = "returned"
    /\ "geocent_time" \in DOMAIN args.params_dict
    /\ Len(args.detector_presets) >= 2
    /\ \E i \in 1..Len(args.detector_presets) :
           outcome.value[args.detector_presets[i].key][1] # CZero

ResponseKeys == {"ra", "dec", "t_c", "psi", "geocent_time", "start_time"}
RippleKeys ==
    {"Mc", "eta", "chi1", "chi2", "D", "t_c", "phic", "inclination", "psi",
     "ra", "dec"}
Absent(d, keys) == keys \ DOMAIN d
\* the first key of the sequence ks that d lacks
FirstAbsent(d, ks) ==
    ks[CHOOSE i \in 1..Len(ks) :
           /\ ks[i] \notin DOMAIN d
           /\ \A j \in 1..(i - 1) : ks[j] \in DOMAIN d]
IsKeyError(o, k) == o.kind = "raise" /\ o.exc = "KeyError" /\ o.key = k
ModesOf(w) == {w[j].mode : j \in 1..Len(w)}

\* C4 as stated: whenever one of ra, dec, t_c, psi, geocent_time, start_time
\* is absent, get_detector_response raises a KeyError naming an absent key,
\* for every waveform mapping (here: of recognized modes), the empty one
\* included; likewise get_detector_response_ripple for its eleven keys
C4_AsStated ==
    /\ (fn = "get_detector_response" /\ Finished
            /\ (\A m \in ModesOf(args.waveform_polarizations) : IsRecognized(m))
            /\ Absent(args.parameters, ResponseKeys) # {}) =>
           /\ outcome.kind = "raise"
           /\ outcome.exc = "KeyError"
           /\ outcome.key \in Absent(args.parameters, ResponseKeys)
    /\ (fn = "get_detector_response_ripple" /\ Finished
            /\ Absent(args.params_dict, RippleKeys) # {}) =>
           /\ outcome.kind = "raise"
           /\ outcome.exc = "KeyError"
           /\ outcome.key \in Absent(args.params_dict, RippleKeys)

\* C4: an absent key makes the call raise the KeyError of the first absent key
\* in reading order.  get_detector_response reads ra, dec, t_c, psi once per
\* mode of the waveform mapping (so not at all for an empty mapping, where an
\* absent psi goes unnoticed), then, if every mode was recognized, ra, dec,
\* t_c, geocent_time, start_time.  get_detector_response_ripple reads its
\* eleven keys before the loop over the presets.
C4_MissingKey ==
    /\ (fn = "get_detector_response" /\ Finished) =>
           LET p == args.parameters
               w == args.waveform_polarizations
           IN  /\ (w # <<>> /\ Absent(p, {"ra", "dec", "t_c", "psi"}) # {}) =>
                      IsKeyError(outcome,
                                 FirstAbsent(p, <<"ra", "dec", "t_c", "psi">>))
               /\ ((\A m \in ModesOf(w) : IsRecognized(m))
                       /\ (w = <<>> \/ Absent(p, {"ra", "dec", "t_c", "psi"}) = {})
                       /\ Absent(p, ResponseKeys \ {"psi"}) # {}) =>
                      IsKeyError(outcome,
                                 FirstAbsent(p, <<"ra", "dec", "t_c",
                                                  "geocent_time", "start_time">>))
               /\ (w = <<>> /\ Absent(p, ResponseKeys) = {"psi"}) =>
                      outcome.kind = "return"
    /\ (fn = "get_detector_response_ripple" /\ Finished
            /\ Absent(args.params_dict, RippleKeys) # {}) =>
           IsKeyError(outcome,
                      FirstAbsent(args.params_dict,
                                  <<"Mc", "eta", "chi1", "chi2", "D", "t_c", "phic",
                                    "inclination", "psi", "ra", "dec">>))

C4_Witness ==
    /\ fn = "get_detector_response"
    /\ pc = "raised"
    /\ args.waveform_polarizations = <<>>
    /\ Absent(args.parameters, ResponseKeys) = {"psi", "start_time"}
    /\ outcome.key = "start_time"

\* c times (arrival of the wavefront at detector2 minus its arrival at
\* detector1), for the wave whose direction of travel is the omega =
\* cross(m, n) of the polarization tensors
ArrivalLag(detector1, detector2, ra, dec, time, psi) ==
    LET b == polarization_basis(ra, dec, time, psi)
    IN  jnp_dot(jnp_cross(b.m, b.n), VSub(detector2, detector1))

\* the unit vector towards the source at phi = ra - (time mod 2 pi),
\* theta = pi/2 - dec
TowardsSource(ra, dec, time) ==
    LET phi == ra - (time % 4)
        theta == 1 - dec
    IN  Vec(RMul(jnp_sin(theta), jnp_cos(phi)),
            RMul(jnp_sin(theta), jnp_sin(phi)),
            jnp_cos(theta))

\* C5 as stated: a positive time_delay_geocentric(detector1, detector2, ...)
\* means the wavefront reaches detector2 later than detector1, a negative one
\* earlier
C5_AsStated ==
    (fn = "time_delay_geocentric" /\ pc = "returned") =>
        \A psi \in PsiSet :
            LET lag == ArrivalLag(args.detector1, args.detector2, args.ra,
                                  args.dec, args.time, psi)
            IN  /\ RSign(outcome.value) = 1 => RSign(lag) = 1
                /\ RSign(outcome.value) = -1 => RSign(lag) = -1

\* C5: the wave from the source travels against the unit vector towards the
\* source, and time_delay_geocentric(detector1, detector2, ...) is the arrival
\* at detector1 minus the arrival at detector2: a positive value means the
\* wavefront reaches detector2 earlier than detector1, a negative one later
C5_SignConvention ==
    (fn = "time_delay_geocentric" /\ pc = "returned") =>
        \A psi \in PsiSet :
            LET lag == ArrivalLag(args.detector1, args.detector2, args.ra,
                                  args.dec, args.time, psi)
                b == polarization_basis(args.ra, args.dec, args.time, psi)
            IN  /\ jnp_cross(b.m, b.n) =
                       VNeg(TowardsSource(args.ra, args.dec, args.time))
                /\ RMul(outcome.value, R(speed_of_light)) = RNeg(lag)

C5_Witness ==
    /\ fn = "time_delay_geocentric"
    /\ pc = "returned"
    /\ args.detector2 = Origin
    /\ args.time >= 4
    /\ RSign(outcome.value) = 1

\* C6: time_delay_geocentric(A, B, ra, dec, t) is the negative of
\* time_delay_geocentric(B, A, ra, dec, t), and it is 0 when both positions
\* are the same
C6_Antisymmetry ==
    (fn = "time_delay_geocentric" /\ pc = "returned") =>
        /\ outcome.value =
               RNeg(time_delay_geocentric(args.detector2, args.detector1,
                                          args.ra, args.dec, args.time))
        /\ args.detector1 = args.detector2 => outcome.value = R(0)
        /\ time_delay_geocentric(args.detector2, args.detector2, args.ra,
                                 args.dec, args.time) = R(0)

C6_Witness ==
    /\ fn = "time_delay_geocentric"
    /\ pc = "returned"
    /\ args.detector1 # Origin /\ args.detector2 # Origin
    /\ RSign(outcome.value) = -1

WellFormed(a) ==
    /\ ResponseKeys \subseteq DOMAIN a.parameters
    /\ \A m \in ModesOf(a.waveform_polarizations) : IsRecognized(m)

\* C7: with the zero matrix as detector tensor, get_detector_response returns
\* an array of the length of the frequency grid whose entries are all 0,
\* whatever modes and amplitudes the waveform mapping holds and whatever the
\* detector vertex and the time parameters are
C7_ZeroTensor ==
    (fn = "get_detector_response" /\ Finished /\ WellFormed(args)
         /\ args.detector_tensor = ZeroMatrix) =>
        /\ outcome.kind = "return"
        /\ Len(outcome.value) = Len(args.frequency)
        /\ \A i \in 1..Len(args.frequency) : outcome.value[i] = CZero

C7_Witness ==
    /\ fn = "get_detector_response"
    /\ pc = "returned"
    /\ args.detector_tensor = ZeroMatrix
    /\ Len(args.waveform_polarizations) >= 2
    /\ args.waveform_polarizations[1].h[1] # CZero
    /\ args.detector_vertex # Origin
    /\ args.parameters["geocent_time"] # args.parameters["start_time"]

\* the antenna-weighted sum of the modes j.. of the waveform mapping w at the
\* frequency bin i
RECURSIVE WeightedSum(_, _, _, _, _)
WeightedSum(w, j, i, p, det) ==
    IF j > Len(w) THEN CZero
    ELSE CAdd(CScale(w[j].h[i],
                     antenna_response(det, p["ra"], p["dec"], p["t_c"], p["psi"],
                                      w[j].mode).value),
              WeightedSum(w, j + 1, i, p, det))

\* C8: with geocent_time equal to start_time and the detector vertex at the
\* origin, get_detector_response returns at every frequency bin the sum over
\* the modes present of antenna_response(...) times the mode's amplitude
C8_NoPhaseShift ==
    (fn = "get_detector_response" /\ pc = "returned"
         /\ args.parameters["geocent_time"] = args.parameters["start_time"]
         /\ args.detector_vertex = Origin) =>
        /\ Len(outcome.value) = Len(args.frequency)
        /\ \A i \in 1..Len(args.frequency) :
               outcome.value[i] =
                   WeightedSum(args.waveform_polarizations, 1, i, args.parameters,
                               args.detector_tensor)

C8_Witness ==
    /\ fn = "get_detector_response"
    /\ pc = "returned"
    /\ args.parameters["geocent_time"] = Rat(1, 2)
    /\ args.parameters["start_time"] = Rat(1, 2)
    /\ args.detector_vertex = Origin
    /\ Len(args.waveform_polarizations) = 2
    /\ outcome.value[1] # CZero

\* C9: no step of a call of get_detector_response or
\* get_detector_response_ripple changes the caller's argument objects, whether
\* the call returns or raises, and a second call with the same arguments ends
\* as the first did
C9_NoSideEffects ==
    /\ [][args' = args]_vars
    /\ []((Finished /\ calls > 1) =>
             (outcome.kind = prev_outcome.kind /\ outcome = prev_outcome))

C9_Witness ==
    /\ fn = "get_detector_response_ripple"
    /\ pc = "returned"
    /\ calls = 2
    /\ Len(args.detector_presets) >= 1
    /\ "geocent_time" \notin DOMAIN args.params_dict

\* C10: for unit vectors arm1 and arm2, detector_tensor(arm1, arm2) is a
\* symmetric 3x3 matrix with trace 0
C10_SymmetricTraceless ==
    (fn = "detector_tensor" /\ pc = "returned"
         /\ jnp_dot(args.arm1, args.arm1) = R(1)
         /\ jnp_dot(args.arm2, args.arm2) = R(1)) =>
        LET T == outcome.value
        IN  /\ \A i, j \in 1..3 : T[i][j] = T[j][i]
            /\ RAdd(RAdd(T[1][1], T[2][2]), T[3][3]) = R(0)

C10_Witness ==
    /\ fn = "detector_tensor"
    /\ pc = "returned"
    /\ args.arm1 # args.arm2
    /\ outcome.value[1][2] # R(0)
    /\ outcome.value[3][3] # R(0)

====
